---- MODULE Spec2Model ----
(***************************************************************************)
(* SchurDecomposition<Scalar>::run (implicit double-shift QR iteration     *)
(* with deflation) as a state machine.  The repository holds two versions  *)
(* of the class: the one with the relative deflation threshold and the     *)
(* cascading test (try_to_deflate), and the one with the absolute          *)
(* threshold (try_deflate).  `variant` says which one a behaviour runs.    *)
(*                                                                         *)
(* Scalars are floating-point numbers.  An entry of a matrix is either an  *)
(* exact small integer (an input value, or a zero the algorithm stored) or *)
(* Unknown: a value produced by a Householder reflection, which the model  *)
(* does not compute.  An Unknown entry is resolved to a concrete value at  *)
(* the moment the code compares it (zero_under_diagonal).                  *)
(***************************************************************************)
EXTENDS Integers, FiniteSets

\* ------------------------------------------------------------- bounds
MaxN == 4          \* largest matrix dimension explored
MaxUnder == 2      \* how far below 0 an out-of-range cur_size_ is followed
MaxCount == 2      \* the history counters saturate here

\* ------------------------------------------------------------- scalars
Unknown == 99      \* a Scalar whose value the model does not compute
PrecDen == 2       \* precision_ is PrecNum / PrecDen
PrecNums == {0, 1, 2}
DiagVals == {-2, 0}
SubVals == {-1, 0}
UpperVal == 1
\* The values a read of an entry the model did not compute can yield: a
\* sub-diagonal entry is negligible (0) or not (-2), a diagonal entry is -2;
\* with these every outcome of the two deflation tests occurs.
ReadSubVals == {-2, 0}
ReadDiagVals == {-2}

Abs(x) == IF x < 0 THEN -x ELSE x

Min(a, b) == IF a < b THEN a ELSE b

Max(a, b) == IF a < b THEN b ELSE a

\* Scalar multiplication and addition on {exact integers, Unknown}.
Mul(a, b) ==
  IF a = 0 \/ b = 0 THEN 0
  ELSE IF a = Unknown \/ b = Unknown THEN Unknown
  ELSE a * b

Add(a, b) == IF a = Unknown \/ b = Unknown THEN Unknown ELSE a + b

Sub(a, b) == IF a = Unknown \/ b = Unknown THEN Unknown ELSE a - b

\* ------------------------------------------------------------- matrices
\* DynamicMatrix: rows, cols and the coefficients a[<<i, j>>], 0-based.
Indices(r, c) == (0 .. r - 1) \X (0 .. c - 1)

Matrix(r, c, f) ==
  [rows |-> r, cols |-> c, a |-> [p \in Indices(r, c) |-> f[p]]]

EmptyMatrix == [rows |-> 0, cols |-> 0, a |-> [p \in {} |-> 0]]

InRange(m, i, j) == i >= 0 /\ i < m.rows /\ j >= 0 /\ j < m.cols

\* A block view (row offset, col offset, rows, cols) of a matrix.
View(mat, i, j, r, c, wr) ==
  [m |-> mat, r0 |-> i, c0 |-> j, nr |-> r, nc |-> c, w |-> wr]

\* Eigen's range assertion for block(i, j, r, c) and for operator()(i, j).
ViewInRange(v, n) ==
  /\ v.r0 >= 0 /\ v.c0 >= 0 /\ v.nr >= 0 /\ v.nc >= 0
  /\ v.r0 + v.nr <= n /\ v.c0 + v.nc <= n

Variants == {"relative", "absolute"}

VARIABLES
  variant,      \* which version of the class runs
  pc,           \* position in run()
  data,         \* the argument `data`
  sf_null,      \* the argument `schur_form` is a null pointer
  un_null,      \* the argument `unitary` is a null pointer
  precision,    \* precision_ (numerator over PrecDen)
  schur_form,   \* the caller's buffer *schur_form
  reduced,      \* *schur_form as reduce_to_hessenberg_form left it
  unitary_set,  \* the caller's buffer *unitary has been written
  cur_size,     \* cur_size_
  step,         \* the loop variable of restore_hessenberg_form
  views,        \* element accesses and block views of the last step
  seen,         \* the values the last deflation pass compared
  zeroed,       \* sub-diagonal rows i whose T(i,i-1) a deflation has zeroed
  blocks,       \* <<i, v>>: a two-step deflation left T(i,i-1) = v inside its block
  checks,       \* deflation passes so far (saturating)
  sweeps        \* QR iterations started so far (saturating)

vars == <<variant, pc, data, sf_null, un_null, precision, schur_form, reduced,
          unitary_set, cur_size, step, views, seen, zeroed, blocks, checks,
          sweeps>>

\* ------------------------------------------------- HouseholderReflector
\* The reflector built from a vector whose entries below the first are all
\* exactly zero acts as the identity; the vector is given as the set of its
\* entries below the first.
ActsAsIdentity(tail) == \A x \in tail : x = 0

\* reflect_left on block(i0, j0, k, nc): every column of the block is mixed
\* over the k rows.  tcol is the column the reflector was built from (-1 for
\* none): there the result is a multiple of the first basis vector.
ReflectLeft(m, i0, j0, k, nc, tcol, ident) ==
  IF ident THEN m
  ELSE [m EXCEPT !.a =
         [p \in DOMAIN m.a |->
            IF p[1] >= i0 /\ p[1] < i0 + k /\ p[2] >= j0 /\ p[2] < j0 + nc
            THEN IF p[2] = tcol
                 THEN (IF p[1] = i0 THEN Unknown ELSE 0)
                 ELSE IF \A r \in i0 .. i0 + k - 1 : m.a[<<r, p[2]>>] = 0
                      THEN 0
                      ELSE Unknown
            ELSE m.a[p]]]

\* reflect_right on block(i0, j0, nr, k): every row of the block is mixed
\* over the k columns.
ReflectRight(m, i0, j0, nr, k, ident) ==
  IF ident THEN m
  ELSE [m EXCEPT !.a =
         [p \in DOMAIN m.a |->
            IF p[1] >= i0 /\ p[1] < i0 + nr /\ p[2] >= j0 /\ p[2] < j0 + k
            THEN IF \A c \in j0 .. j0 + k - 1 : m.a[<<p[1], c>>] = 0
                 THEN 0
                 ELSE Unknown
            ELSE m.a[p]]]

\* The entries of column j in rows lo .. hi.
ColumnEntries(m, j, lo, hi) == {m.a[<<r, j>>] : r \in lo .. hi}

\* -------------------------------------------------- HessenbergReduction
\* One reflector per column k = 0 .. n-3, built from rows k+1 .. n-1 of
\* column k, applied from the left to columns k .. n-1 and from the right
\* (the similarity) to columns k+1 .. n-1.
RECURSIVE HessenbergFrom(_, _)
HessenbergFrom(m, k) ==
  IF k > m.rows - 3 THEN m
  ELSE LET n == m.rows
           ident == ActsAsIdentity(ColumnEntries(m, k, k + 2, n - 1))
           left == ReflectLeft(m, k + 1, k, n - k - 1, n - k, k, ident)
           both == ReflectRight(left, 0, k + 1, n, n - k - 1, ident)
       IN HessenbergFrom(both, k + 1)

HessenbergReductionRun(m) == HessenbergFrom(m, 0)

\* ------------------------------------------------------------- inputs
HessenbergInput(n, d, s) ==
  Matrix(n, n, [p \in Indices(n, n) |->
                  IF p[1] = p[2] THEN d[p[1]]
                  ELSE IF p[1] = p[2] + 1 THEN s[p[1]]
                  ELSE IF p[1] < p[2] THEN UpperVal
                  ELSE 0])

HessenbergInputs(n) ==
  {HessenbergInput(n, d, s) : d \in [0 .. n - 1 -> DiagVals],
                              s \in [1 .. n - 1 -> SubVals]}

\* A full matrix: every entry non-zero.
GenericInput(n) == Matrix(n, n, [p \in Indices(n, n) |-> 1])

\* [[2,1],[1,2]]
SymmetricExample ==
  Matrix(2, 2, [p \in Indices(2, 2) |-> IF p[1] = p[2] THEN 2 ELSE 1])

NonSquareInput == Matrix(2, 3, [p \in Indices(2, 3) |-> 1])

Inputs ==
  UNION {HessenbergInputs(n) \cup {GenericInput(n)} : n \in 1 .. MaxN}
    \cup {SymmetricExample, NonSquareInput}

\* The calls that fail validation are explored on these inputs.
RejectedInputs == {SymmetricExample, NonSquareInput, GenericInput(3)}

\* cur_size_ has no initializer; run_QR_algorithm writes it before any read,
\* so one out-of-range start value stands for the indeterminate one.
Indeterminate == {-1}

NoSeen == [p \in {} |-> 0]

Init ==
  /\ variant \in Variants
  /\ pc = "call"
  /\ data \in Inputs
  /\ sf_null \in BOOLEAN
  /\ un_null \in BOOLEAN
  /\ (sf_null \/ un_null) => data \in RejectedInputs
  /\ precision \in PrecNums
  /\ schur_form = EmptyMatrix
  /\ reduced = EmptyMatrix
  /\ unitary_set = FALSE
  /\ cur_size \in Indeterminate
  /\ step = 0
  /\ views = {}
  /\ seen = NoSeen
  /\ zeroed = {}
  /\ blocks = {}
  /\ checks = 0
  /\ sweeps = 0

size == schur_form.rows

At(m, i, j) == m.a[<<i, j>>]

Bump(k) == Min(k + 1, MaxCount)

AllInRange(vs, n) == \A v \in vs : ViewInRange(v, n)

ElementViews(ps, wr) == {View("schur_form", p[1], p[2], 1, 1, wr) : p \in ps}

\* An access outside the matrix stops the run (Eigen's range assertion).
Abort(vs) ==
  /\ pc' = "abort"
  /\ views' = vs
  /\ UNCHANGED <<variant, data, sf_null, un_null, precision, schur_form,
                 reduced, unitary_set, cur_size, step, seen, zeroed, blocks,
                 checks, sweeps>>

\* ------------------------------------------------ set_internal_resources
\* assert(schur_form); p_schur_form_ = schur_form;
\* assert(data.rows() == data.cols()); *p_schur_form_ = data;
\* assert(unitary); p_unitary_ = unitary;
ResourcesOutcome(d, sfn, unn, sf) ==
  IF sfn THEN [pc |-> "violation", sf |-> sf]
  ELSE IF d.rows # d.cols THEN [pc |-> "violation", sf |-> sf]
  ELSE IF unn THEN [pc |-> "violation", sf |-> d]
  ELSE [pc |-> "reduce", sf |-> d]

\* set_internal_members: the three assertions, then the assignments.
MembersOutcome(d, sfn, unn, sf) ==
  IF d.rows # d.cols \/ sfn \/ unn
  THEN [pc |-> "violation", sf |-> sf]
  ELSE [pc |-> "reduce", sf |-> d]

Validate(out) ==
  /\ pc = "call"
  /\ pc' = out.pc
  /\ schur_form' = out.sf
  /\ views' = {}
  /\ UNCHANGED <<variant, data, sf_null, un_null, precision, reduced,
                 unitary_set, cur_size, step, seen, zeroed, blocks, checks,
                 sweeps>>

SetInternalResources ==
  /\ variant = "relative"
  /\ Validate(ResourcesOutcome(data, sf_null, un_null, schur_form))

SetInternalMembers ==
  /\ variant = "absolute"
  /\ Validate(MembersOutcome(data, sf_null, un_null, schur_form))

\* ---------------------------------------------- reduce_to_hessenberg_form
\* (the same in both versions)
ReduceToHessenbergForm ==
  /\ pc = "reduce"
  /\ schur_form' = HessenbergReductionRun(schur_form)
  /\ reduced' = schur_form'
  /\ unitary_set' = TRUE
  /\ pc' = "qr"
  /\ views' = {}
  /\ UNCHANGED <<variant, data, sf_null, un_null, precision, cur_size, step,
                 seen, zeroed, blocks, checks, sweeps>>

\* ------------------------------------------------------ run_QR_algorithm
\* cur_size_ = size() - 1;
InitialCurSize_Size(n) == n

InitialCurSize(n) == n - 1

\* if (cur_size_ >= 2) try_to_deflate();
InitialDeflation_Always(c) == TRUE

InitialDeflation(c) == c >= 2

\* while (cur_size_ >= 2)
LoopCondition_One(c) == c >= 1

LoopCondition(c) == c >= 2

\* for (cur_size_ = size() - 1; cur_size_ >= 2;)
ForInit(n) == n - 1

ForCondition(c) == c >= 2

EnterLoop(c, next) ==
  /\ pc = "qr"
  /\ cur_size' = c
  /\ pc' = next
  /\ views' = {}
  /\ UNCHANGED <<variant, data, sf_null, un_null, precision, schur_form,
                 reduced, unitary_set, step, seen, zeroed, blocks, checks,
                 sweeps>>

RunQRAlgorithm ==
  /\ variant = "relative"
  /\ LET c == InitialCurSize(size)
     IN EnterLoop(c, IF InitialDeflation(c) THEN "deflate" ELSE "while")

RunQRAlgorithmFor ==
  /\ variant = "absolute"
  /\ EnterLoop(ForInit(size), "while")

TestLoop(again) ==
  /\ pc = "while"
  /\ pc' = IF again THEN "match" ELSE "done"
  /\ sweeps' = IF again THEN Bump(sweeps) ELSE sweeps
  /\ views' = {}
  /\ UNCHANGED <<variant, data, sf_null, un_null, precision, schur_form,
                 reduced, unitary_set, cur_size, step, seen, zeroed, blocks,
                 checks>>

While ==
  /\ variant = "relative"
  /\ TestLoop(LoopCondition(cur_size))

For ==
  /\ variant = "absolute"
  /\ TestLoop(ForCondition(cur_size))

\* ------------------------------------------------------ make_QR_iteration
\* find_bottom_corner_trace / find_bottom_corner_det on block(c-1, c-1, 2, 2)
BottomCornerTrace(m, c) == Add(At(m, c - 1, c - 1), At(m, c, c))

BottomCornerDet(m, c) ==
  Sub(Mul(At(m, c - 1, c - 1), At(m, c, c)),
      Mul(At(m, c - 1, c), At(m, c, c - 1)))

BottomCornerViews(c) == {View("schur_form", c - 1, c - 1, 2, 2, FALSE)}

\* find_matching_column: tmp(1) and tmp(2), the entries below the first.
MatchingColumnTail(m, c) ==
  {Mul(At(m, 1, 0),
       Sub(Add(At(m, 0, 0), At(m, 1, 1)), BottomCornerTrace(m, c))),
   Mul(At(m, 1, 0), At(m, 2, 1))}

MatchingColumnViews(c) ==
  BottomCornerViews(c)
    \cup ElementViews({<<0, 0>>, <<0, 1>>, <<1, 0>>, <<1, 1>>, <<2, 1>>}, FALSE)

\* find_starter_column: rows 1 and 2 of column 0 of
\* top_corner * top_corner - trace * top_corner + det * Identity
StarterColumnTail(m, c) ==
  {Sub(Add(Add(Mul(At(m, r, 0), At(m, 0, 0)), Mul(At(m, r, 1), At(m, 1, 0))),
           Mul(At(m, r, 2), At(m, 2, 0))),
       Mul(BottomCornerTrace(m, c), At(m, r, 0))) : r \in {1, 2}}

StarterColumnViews(c) ==
  BottomCornerViews(c) \cup {View("schur_form", 0, 0, 3, 3, FALSE)}

\* update_schur_form: the rows of the right-hand application,
\* std::min(cur_size_, step + 4) + 1
RightRows_Full(c, stp) == size

RightRows(c, stp) == Min(c, stp + 4) + 1

\* update_schur_form and update_unitary: the three block views.
UpdateViews(stp, length, c, n) ==
  {View("schur_form", stp + 1, Max(stp, 0), length, n - Max(stp, 0), TRUE),
   View("schur_form", 0, stp + 1, RightRows(c, stp), length, TRUE),
   View("unitary", 0, stp + 1, n, length, TRUE)}

UpdateSchurForm(m, stp, length, c, tcol, ident) ==
  ReflectRight(
    ReflectLeft(m, stp + 1, Max(stp, 0), length, m.rows - Max(stp, 0),
                tcol, ident),
    0, stp + 1, RightRows(c, stp), length, ident)

\* A reflection step: the views vs, the new matrix, the next position.
Reflect(vs, after, next, nextstep) ==
  IF AllInRange(vs, size)
  THEN /\ schur_form' = after
       /\ pc' = next
       /\ step' = nextstep
       /\ views' = vs
       /\ UNCHANGED <<variant, data, sf_null, un_null, precision, reduced,
                      unitary_set, cur_size, seen, zeroed, blocks, checks,
                      sweeps>>
  ELSE Abort(vs)

SetMatchingColumn ==
  /\ variant = "relative"
  /\ pc = "match"
  /\ LET vs == MatchingColumnViews(cur_size)
                 \cup UpdateViews(-1, 3, cur_size, size)
     IN Reflect(vs,
                IF AllInRange(vs, size)
                THEN UpdateSchurForm(schur_form, -1, 3, cur_size, -1,
                       ActsAsIdentity(MatchingColumnTail(schur_form, cur_size)))
                ELSE schur_form,
                "restore", 0)

\* restore_hessenberg_form: for (; step <= cur_size_ - 3; ++step)
RestoreLoopCondition_Short(stp, c) == stp < c - 3

RestoreLoopCondition(stp, c) == stp <= c - 3

\* get_reflected_column(step, rows) is block(step + 1, step, rows, 1).
RestoreViews(stp, length, c, n) ==
  {View("schur_form", stp + 1, stp, length, 1, FALSE)}
    \cup UpdateViews(stp, length, c, n)

Restore(length, next, nextstep) ==
  LET vs == RestoreViews(step, length, cur_size, size)
  IN Reflect(vs,
             IF AllInRange(vs, size)
             THEN UpdateSchurForm(schur_form, step, length, cur_size, step,
                    ActsAsIdentity(
                      ColumnEntries(schur_form, step, step + 2, step + length)))
             ELSE schur_form,
             next, nextstep)

\* one pass of the loop body, a 3-row reflector
RestoreStep ==
  /\ variant = "relative"
  /\ pc = "restore"
  /\ RestoreLoopCondition(step, cur_size)
  /\ Restore(3, "restore", step + 1)

\* after the loop, the 2-row reflector
RestoreLast ==
  /\ variant = "relative"
  /\ pc = "restore"
  /\ ~RestoreLoopCondition(step, cur_size)
  /\ Restore(2, "deflate", step)

\* ------------------------------------------------ start / process / finish
StartViews(c, n) ==
  StarterColumnViews(c)
    \cup {View("schur_form", 0, 0, 3, n, TRUE),
          View("schur_form", 0, 0, Min(c, 3) + 1, 3, TRUE),
          View("unitary", 0, 0, n, 3, TRUE)}

Start ==
  /\ variant = "absolute"
  /\ pc = "match"
  /\ LET vs == StartViews(cur_size, size)
     IN Reflect(vs,
                IF AllInRange(vs, size)
                THEN LET ident == ActsAsIdentity(
                                    StarterColumnTail(schur_form, cur_size))
                     IN ReflectRight(
                          ReflectLeft(schur_form, 0, 0, 3, size, -1, ident),
                          0, 0, Min(cur_size, 3) + 1, 3, ident)
                ELSE schur_form,
                "restore", 0)

\* for (int step = 0; step <= cur_size_ - 3; ++step)
ProcessLoopCondition(stp, c) == stp <= c - 3

ProcessViews(stp, c, n) ==
  {View("schur_form", stp + 1, stp, 3, 1, FALSE),
   View("schur_form", stp + 1, stp, 3, n - stp, TRUE),
   View("schur_form", 0, stp + 1, Min(c, stp + 4) + 1, 3, TRUE),
   View("unitary", 0, stp + 1, n, 3, TRUE)}

\* one pass of the loop of process()
Process ==
  /\ variant = "absolute"
  /\ pc = "restore"
  /\ ProcessLoopCondition(step, cur_size)
  /\ LET vs == ProcessViews(step, cur_size, size)
     IN Reflect(vs,
                IF AllInRange(vs, size)
                THEN LET ident == ActsAsIdentity(
                           ColumnEntries(schur_form, step, step + 2, step + 3))
                     IN ReflectRight(
                          ReflectLeft(schur_form, step + 1, step, 3,
                                      size - step, step, ident),
                          0, step + 1, Min(cur_size, step + 4) + 1, 3, ident)
                ELSE schur_form,
                "restore", step + 1)

FinishViews(c, n) ==
  {View("schur_form", c - 1, c - 2, 2, 1, FALSE),
   View("schur_form", c - 1, c - 2, 2, n - c + 2, TRUE),
   View("schur_form", 0, c - 1, c + 1, 2, TRUE),
   View("unitary", 0, c - 1, n, 2, TRUE)}

Finish ==
  /\ variant = "absolute"
  /\ pc = "restore"
  /\ ~ProcessLoopCondition(step, cur_size)
  /\ LET vs == FinishViews(cur_size, size)
         c == cur_size
     IN Reflect(vs,
                IF AllInRange(vs, size)
                THEN LET ident == ActsAsIdentity(
                                    ColumnEntries(schur_form, c - 2, c, c))
                     IN ReflectRight(
                          ReflectLeft(schur_form, c - 1, c - 2, 2,
                                      size - c + 2, c - 2, ident),
                          0, c - 1, c + 1, 2, ident)
                ELSE schur_form,
                "deflate", step)

\* --------------------------------------------------------- try_to_deflate
\* The entries zero_under_diagonal(index) reads.
ReadPositions(index) ==
  {<<index, index - 1>>, <<index, index>>, <<index - 1, index - 1>>}

Computed(m, p) == InRange(m, p[1], p[2]) /\ m.a[p] # Unknown

ReadChoices(ps) ==
  {ch \in [ps -> ReadSubVals \cup ReadDiagVals] :
     \A p \in ps : ch[p] \in (IF p[1] = p[2] THEN ReadDiagVals ELSE ReadSubVals)}

\* The value a read of entry p yields: the stored value, or, for an entry
\* the model did not compute or outside the matrix, the value ch picks.
ReadValue(m, ch, p) == IF Computed(m, p) THEN m.a[p] ELSE ch[p]

\* The matrix with the entries read given the values the reads yielded.
Resolved(m, ch, read) ==
  [m EXCEPT !.a = [p \in DOMAIN m.a |->
                     IF p \in read /\ m.a[p] = Unknown THEN ch[p] ELSE m.a[p]]]

\* std::abs(T(index, index-1)) <
\*   precision_ * (std::abs(T(index, index)) + std::abs(T(index-1, index-1)))
ZeroUnderDiagonal(sub, d1, d2, prec) ==
  PrecDen * Abs(sub) < prec * (Abs(d1) + Abs(d2))

ZeroAt(m, ch, index, prec) ==
  ZeroUnderDiagonal(ReadValue(m, ch, <<index, index - 1>>),
                    ReadValue(m, ch, <<index, index>>),
                    ReadValue(m, ch, <<index - 1, index - 1>>), prec)

\* if (zero(cur)) decrement 1; else if (zero(cur - 1)) decrement 2; else stop
Decrement(one, two) == IF one THEN 1 ELSE IF two THEN 2 ELSE 0

\* decrement_cur_size writes (cur_size_ + 1 - decrement, cur_size_ - decrement)
ZeroedPosition(c, dec) == <<c + 1 - dec, c - dec>>

\* check_deflation stays true after a decrement: the loop tests again.
AfterPass(dec) == IF dec = 0 THEN "while" ELSE "deflate"

\* The effect of one deflation test whose first comparison reads `first`,
\* that read `read` in all, decided `dec` and goes on at `next`.  An access
\* outside the matrix either stops the run there or (assertions compiled
\* out) reads an arbitrary value and writes outside the matrix; the latter
\* is followed while cur_size_ > -MaxUnder.
Deflate(ch, first, read, dec, wpos, next) ==
  LET c == cur_size
      vs == ElementViews(read, FALSE)
              \cup (IF dec = 0 THEN {} ELSE ElementViews({wpos}, TRUE))
      resolved == Resolved(schur_form, ch, read)
  IN \/ /\ ~AllInRange(vs, size)
        /\ Abort(IF AllInRange(ElementViews(first, FALSE), size)
                 THEN ElementViews(read, FALSE)
                 ELSE ElementViews(first, FALSE))
     \/ /\ AllInRange(vs, size) \/ c > -MaxUnder
        /\ schur_form' =
             IF dec > 0 /\ InRange(schur_form, wpos[1], wpos[2])
             THEN [resolved EXCEPT !.a[wpos] = 0]
             ELSE resolved
        /\ cur_size' = c - dec
        /\ pc' = next
        /\ views' = vs
        /\ seen' = [p \in read |-> ReadValue(schur_form, ch, p)]
        /\ zeroed' = IF dec = 0 THEN zeroed ELSE zeroed \cup {wpos[1]}
        /\ blocks' = IF dec = 2 /\ InRange(schur_form, c, c - 1)
                     THEN blocks \cup
                            {<<c, ReadValue(schur_form, ch, <<c, c - 1>>)>>}
                     ELSE blocks
        /\ checks' = Bump(checks)
        /\ UNCHANGED <<variant, data, sf_null, un_null, precision, reduced,
                       unitary_set, step, sweeps>>

\* One pass of while (check_deflation).
TryToDeflate ==
  /\ variant = "relative"
  /\ pc = "deflate"
  /\ LET c == cur_size
         all == ReadPositions(c) \cup ReadPositions(c - 1)
     IN \E ch \in ReadChoices({p \in all : ~Computed(schur_form, p)}) :
          LET one == ZeroAt(schur_form, ch, c, precision)
              two == ZeroAt(schur_form, ch, c - 1, precision)
              dec == Decrement(one, two)
          IN Deflate(ch, ReadPositions(c),
                     IF one THEN ReadPositions(c) ELSE all, dec,
                     ZeroedPosition(c, dec), AfterPass(dec))

\* ------------------------------------------------------------ try_deflate
\* near_zero: std::abs(value) < precision_
NearZero(value, prec) == PrecDen * Abs(value) < prec

\* deflate_once writes (cur_size_, cur_size_ - 1), deflate_twice
\* (cur_size_ - 1, cur_size_ - 2).
DeflatedPosition(c, dec) == IF dec = 1 THEN <<c, c - 1>> ELSE <<c - 1, c - 2>>

TryDeflate ==
  /\ variant = "absolute"
  /\ pc = "deflate"
  /\ LET c == cur_size
         all == {<<c, c - 1>>, <<c - 1, c - 2>>}
     IN \E ch \in ReadChoices({p \in all : ~Computed(schur_form, p)}) :
          LET one == NearZero(ReadValue(schur_form, ch, <<c, c - 1>>), precision)
              two == NearZero(ReadValue(schur_form, ch, <<c - 1, c - 2>>),
                              precision)
              dec == IF one THEN 1 ELSE IF two THEN 2 ELSE 0
          IN Deflate(ch, {<<c, c - 1>>},
                     IF one THEN {<<c, c - 1>>} ELSE all, dec,
                     DeflatedPosition(c, dec), "while")

Next ==
  \/ SetInternalResources
  \/ SetInternalMembers
  \/ ReduceToHessenbergForm
  \/ RunQRAlgorithm
  \/ RunQRAlgorithmFor
  \/ While
  \/ For
  \/ SetMatchingColumn
  \/ RestoreStep
  \/ RestoreLast
  \/ TryToDeflate
  \/ Start
  \/ Process
  \/ Finish
  \/ TryDeflate

Spec == Init /\ [][Next]_vars

\* ------------------------------------------------------------ properties
Running == pc \in {"deflate", "while", "match", "restore"}

ValidCall == data.rows = data.cols /\ ~sf_null /\ ~un_null

\* Zero at least two rows below the diagonal.
IsHessenberg(m) == \A p \in DOMAIN m.a : p[1] >= p[2] + 2 => m.a[p] = 0

\* Upper Hessenberg with no two adjacent non-zero sub-diagonal entries.
IsQuasiTriangular(m) ==
  /\ IsHessenberg(m)
  /\ \A i \in 1 .. m.rows - 2 : At(m, i, i - 1) = 0 \/ At(m, i + 1, i) = 0

\* The relative criterion at row i, on the values v of the entries.
RelativeCriterion(v, i) ==
  PrecDen * Abs(v[<<i, i - 1>>])
    < precision * (Abs(v[<<i, i>>]) + Abs(v[<<i - 1, i - 1>>]))

\* m2 is m but for the entries in w, and for entries read in the last pass,
\* which now hold the value the read yielded.
SameBut(m, m2, w, v) ==
  /\ m2.rows = m.rows /\ m2.cols = m.cols
  /\ \A p \in DOMAIN m.a :
       \/ p \in w
       \/ m2.a[p] = m.a[p]
       \/ m.a[p] = Unknown /\ m2.a[p] = v[p]

\* The values of the entries as a deflation test that ends in the primed
\* state found them: what it read, else what is stored.
Found ==
  [p \in DOMAIN schur_form.a |->
     IF p \in DOMAIN seen' THEN seen'[p] ELSE schur_form.a[p]]

KnownAt(v, i) == \A p \in ReadPositions(i) : v[p] # Unknown

\* C1: a deflation test at cur_size = c >= 2 compares with the relative
\* tolerance precision * (|T(i,i)| + |T(i-1,i-1)|): the one-step test first
\* (zero T(c,c-1), cur_size = c-1), else the two-step test (zero T(c-1,c-2),
\* cur_size = c-2), else nothing changes.
C1_DeflationTest ==
  [][(pc = "deflate" /\ cur_size >= 2 /\ pc' # "abort" /\ KnownAt(Found, cur_size)) =>
       LET c == cur_size
           v == Found
       IN /\ \A p \in DOMAIN seen' : schur_form.a[p] \in {v[p], Unknown}
          /\ IF RelativeCriterion(v, c)
             THEN /\ cur_size' = c - 1
                  /\ At(schur_form', c, c - 1) = 0
                  /\ SameBut(schur_form, schur_form', {<<c, c - 1>>}, v)
             ELSE KnownAt(v, c - 1) =>
                  IF RelativeCriterion(v, c - 1)
                  THEN /\ cur_size' = c - 2
                       /\ At(schur_form', c - 1, c - 2) = 0
                       /\ SameBut(schur_form, schur_form',
                                  {<<c - 1, c - 2>>}, v)
                  ELSE /\ cur_size' = c
                       /\ SameBut(schur_form, schur_form', {}, v)]_vars

\* The relative criterion holds of the stored entries at row i, or one of
\* them has not been looked at since it was last computed.
Pending(i) ==
  \/ \E p \in ReadPositions(i) : ~Computed(schur_form, p)
  \/ RelativeCriterion(schur_form.a, i)

\* C2: with n >= 3 a QR iteration starts only after a deflation test, and
\* the tests cascade until neither criterion fires: when an iteration
\* starts, neither the one-step nor the two-step criterion holds at
\* cur_size.
C2_TestedBeforeIteration ==
  (pc = "match" /\ size >= 3) =>
     checks >= 1 /\ ~Pending(cur_size) /\ ~Pending(cur_size - 1)

\* C3: between QR iterations and at the end schur_form is upper Hessenberg:
\* every entry at least two rows below the diagonal is exactly zero.
C3_HessenbergBetweenSweeps ==
  pc \in {"qr", "deflate", "while", "match", "done"} => IsHessenberg(schur_form)

C3_Witness ==
  /\ pc = "deflate" /\ sweeps >= 1 /\ size >= 4 /\ cur_size >= 3
  /\ At(schur_form, 3, 2) = Unknown /\ At(schur_form, 1, 0) = Unknown

\* C4: cur_size starts at n-1, changes only in a deflation test and only by
\* -1 or -2, a QR iteration runs only with cur_size >= 2 and run returns
\* only with cur_size < 2; the loop test goes on exactly when cur_size >= 2.
C4_ActiveSize ==
  [][/\ pc = "qr" => cur_size' = size - 1
     /\ (pc # "qr" /\ cur_size' # cur_size) =>
          pc = "deflate" /\ cur_size' \in {cur_size - 1, cur_size - 2}
     /\ pc = "while" => (pc' = "match" <=> cur_size >= 2)
     /\ pc = "while" => (pc' = "done" <=> cur_size < 2)
     /\ pc' \in {"match", "restore"} => cur_size' >= 2
     /\ pc' = "done" => cur_size' < 2]_vars

C4_Witness == pc = "done" /\ sweeps >= 1 /\ zeroed # {} /\ cur_size < 2

\* C5: when run fails its validation, neither *schur_form nor *unitary has
\* been written.
C5_ValidatesFirst ==
  pc = "violation" => schur_form = EmptyMatrix /\ ~unitary_set

\* C6: on an upper quasi-triangular input with n >= 3, for every
\* precision >= 0, run does not stop short of returning and returns
\* schur_form equal to the input.
C6_FixedPoint ==
  (ValidCall /\ data.rows >= 3 /\ IsQuasiTriangular(data)) =>
     /\ pc # "abort"
     /\ pc = "done" => schur_form = data

\* C7: with n = 2 run makes no deflation test and no QR iteration, and
\* returns schur_form as the Hessenberg reduction left it.
C7_TwoByTwoSkipsLoop ==
  (ValidCall /\ data.rows = 2 /\ pc \in {"while", "match", "restore",
                                         "deflate", "done", "abort"}) =>
     /\ pc \in {"while", "done"}
     /\ cur_size = 1
     /\ checks = 0 /\ sweeps = 0
     /\ schur_form = reduced

C7_Witness ==
  /\ pc = "done" /\ data.rows = 2 /\ data.cols = 2
  /\ At(data, 1, 0) # 0 /\ precision > 0

\* C8 as stated: on [[2,1],[1,2]] run returns a schur_form with zero
\* off-diagonal entries and diagonal {3,1}, after at most one deflation
\* check.
C8_Converges ==
  (pc = "done" /\ data = SymmetricExample) =>
     /\ At(schur_form, 0, 1) = 0 /\ At(schur_form, 1, 0) = 0
     /\ {At(schur_form, 0, 0), At(schur_form, 1, 1)} = {3, 1}
     /\ checks <= 1

\* C8 as amended: on [[2,1],[1,2]] run makes no deflation check and no QR
\* iteration and returns schur_form equal to the input.
C8_ReturnsInput ==
  (pc = "done" /\ data = SymmetricExample) =>
     schur_form = SymmetricExample /\ checks = 0 /\ sweeps = 0

C8_Witness == pc = "done" /\ data = SymmetricExample /\ precision > 0

\* C9: a step taken at cur_size = c writes no entry of schur_form in a row
\* > c, and a deflation test reads no sub-diagonal entry T(i,i-1) with
\* i > c; every sub-diagonal entry a deflation zeroed stays zero, and the
\* inner entry T(c+2,c+1) of a block removed by a two-step deflation keeps
\* its value and is not zeroed by a deflation.
C9_DeflatedUntouched ==
  [][/\ (pc \in {"deflate", "match", "restore"}) =>
          /\ \A v \in views' :
               (v.m = "schur_form" /\ v.w) => v.r0 + v.nr - 1 <= cur_size
          /\ \A v \in views' :
               (pc = "deflate" /\ v.m = "schur_form" /\ v.r0 = v.c0 + 1)
                 => v.r0 <= cur_size
          /\ \A p \in DOMAIN schur_form.a :
               p[1] > cur_size => schur_form'.a[p] = schur_form.a[p]
     /\ \A i \in zeroed' :
          InRange(schur_form', i, i - 1) => At(schur_form', i, i - 1) = 0
     /\ \A b \in blocks' :
          At(schur_form', b[1], b[1] - 1) = b[2] /\ b[1] \notin zeroed']_vars

C9_Witness ==
  /\ pc = "deflate" /\ zeroed # {} /\ cur_size = 2 /\ size = 4
  /\ \E v \in views : v.w /\ v.nr > 1

\* C10: with n >= 3 every element access and block view lies inside the
\* n x n matrix, and cur_size never becomes negative.
C10_IndexSafety ==
  (ValidCall /\ data.rows >= 3 /\ (Running \/ pc \in {"done", "abort"})) =>
     /\ \A v \in views : ViewInRange(v, size)
     /\ cur_size >= 0
     /\ pc # "abort"

====
